---- MODULE Spec2Model ----
(***************************************************************************)
(* dotquery: the boolean query engine over JSON documents.                 *)
(*   core.py     Expression AST (And, Or, Not, Condition), evaluation,     *)
(*               to_dict / from_dict, the factory functions                *)
(*   dsl.py      DSLParser, the recursive-descent parser                   *)
(*   queryset.py QuerySet: to_json / from_json / resolve                   *)
(*   cli.py      main: the query | and | or | not | resolve pipeline       *)
(*                                                                         *)
(* Data.  A JSON value is [int |-> n], [str |-> s] or [list |-> <<..>>].   *)
(* An in-memory Expression is a record with field kind; a Condition holds  *)
(* its operator and quantifier as callables, modelled by the identity of    *)
(* the function object ("operator.eq", "core._re_match_op", ...).  The     *)
(* tagged form (a dict) is a record with field type.                        *)
(***************************************************************************)
EXTENDS Integers, Sequences, FiniteSets, TLC

VARIABLES
    expr,       \* SpecEval: the Expression under evaluation
    data,       \* SpecEval: the document, as what DotPath.find yields per path
    outcome,    \* SpecEval: the result and the order of node evaluations
    tokens,     \* SpecParse: DSLParser.tokens
    parsed,     \* SpecParse: what DSLParser.parse returned or raised
    queryset,   \* SpecResolve: the QuerySet (query, sources)
    fs,         \* SpecResolve: the filesystem, by source descriptor
    resolved,   \* SpecResolve: what QuerySet.resolve did
    wire,       \* Spec: the text on the pipe between two invocations
    memory,     \* Spec: the QuerySet held by the last invocation at its end
    command,    \* Spec: the last invocation: its subcommand, DSL tokens, exit status
    incoming,   \* Spec: the text the last invocation read from its standard input
    origin,     \* Spec: the sources given to the query command
    stage,      \* Spec: the number of invocations so far
    given,      \* SpecFromDict: the tagged tree as the caller built it
    tree,       \* SpecFromDict: the caller's tagged tree (the dict object) now
    calls       \* SpecFromDict: what each Expression.from_dict(tree) returned or raised

evalVars == <<expr, data, outcome>>
parseVars == <<tokens, parsed>>
resolveVars == <<queryset, fs, resolved>>
cliVars == <<wire, memory, command, incoming, origin, stage>>
dictVars == <<given, tree, calls>>
vars == <<expr, data, outcome, tokens, parsed, queryset, fs, resolved,
          wire, memory, command, incoming, origin, stage, given, tree, calls>>

(***************************************************************************)
(* JSON values and Python's str().                                         *)
(***************************************************************************)
IsInt(v) == "int" \in DOMAIN v
IsStr(v) == "str" \in DOMAIN v
IsList(v) == "list" \in DOMAIN v

JInt(n) == [int |-> n]
JStr(s) == [str |-> s]
JList(xs) == [list |-> xs]

\* The characters (code points) of the strings that take part in comparisons.
Chars ==
    "a" :> <<97>> @@ "ab" :> <<97, 98>> @@ "b" :> <<98>> @@ "1" :> <<49>>
    @@ "a." :> <<97, 46>> @@ "(" :> <<40>> @@ "" :> <<>>

RECURSIVE Digits(_)
Digits(n) == IF n < 10 THEN <<48 + n>> ELSE Digits(n \div 10) \o <<48 + (n % 10)>>

\* repr(x) of a list element: 'a' for a string, digits for an int
Repr(v) == IF IsStr(v) THEN <<39>> \o Chars[v.str] \o <<39>> ELSE Digits(v.int)

RECURSIVE JoinRepr(_)
JoinRepr(xs) ==
    IF xs = <<>> THEN <<>>
    ELSE IF Len(xs) = 1 THEN Repr(xs[1])
    ELSE Repr(xs[1]) \o <<44, 32>> \o JoinRepr(Tail(xs))

\* str(v), core.py:309
PyStr(v) ==
    IF IsStr(v) THEN Chars[v.str]
    ELSE IF IsInt(v) THEN Digits(v.int)
    ELSE <<91>> \o JoinRepr(v.list) \o <<93>>

RECURSIVE SeqLess(_, _)
SeqLess(s, t) ==
    IF t = <<>> THEN FALSE
    ELSE IF s = <<>> THEN TRUE
    ELSE IF s[1] # t[1] THEN s[1] < t[1]
    ELSE SeqLess(Tail(s), Tail(t))

IsSubstring(n, h) ==
    \E i \in 0..(Len(h) - Len(n)) : SubSeq(h, i + 1, i + Len(n)) = n

(***************************************************************************)
(* The operator callables.  Each returns "True", "False" or "Raise".       *)
(***************************************************************************)
PyBool(b) == IF b THEN "True" ELSE "False"

\* operator.eq(v, w): never raises; values of different types are unequal
operator_eq(v, w) == PyBool(v = w)

\* operator.gt(v, w): v > w; TypeError between int and str or on lists of
\* mixed content (lists are left out of the ordered domain: they raise
\* against int and str alike)
operator_gt(v, w) ==
    IF IsInt(v) /\ IsInt(w) THEN PyBool(v.int > w.int)
    ELSE IF IsStr(v) /\ IsStr(w) THEN PyBool(SeqLess(Chars[w.str], Chars[v.str]))
    ELSE "Raise"

operator_lt(v, w) ==
    IF IsInt(v) /\ IsInt(w) THEN PyBool(v.int < w.int)
    ELSE IF IsStr(v) /\ IsStr(w) THEN PyBool(SeqLess(Chars[v.str], Chars[w.str]))
    ELSE "Raise"

\* operator.contains(v, w) is `w in v`: v the matched container, w the needle
operator_contains(v, w) ==
    IF IsList(v) THEN PyBool(\E i \in 1..Len(v.list) : v.list[i] = w)
    ELSE IF IsStr(v) THEN
        IF IsStr(w) THEN PyBool(IsSubstring(Chars[w.str], Chars[v.str]))
        ELSE "Raise"
    ELSE "Raise"

\* re.match(r, s) for patterns of literal characters and '.', anchored at the
\* start of s only; an unbalanced '(' is re.error, a non-string r TypeError
RegexPrefix(r, s) ==
    /\ Len(r) <= Len(s)
    /\ \A i \in 1..Len(r) : r[i] = 46 \/ r[i] = s[i]

re_match_op(v, r) ==
    IF ~IsStr(r) THEN "Raise"
    ELSE IF \E i \in 1..Len(Chars[r.str]) : Chars[r.str][i] = 40 THEN "Raise"
    ELSE PyBool(RegexPrefix(Chars[r.str], PyStr(v)))

\* Calling the function object held in Condition.op
CallOp(op, v, w) ==
    CASE op = "operator.eq" -> operator_eq(v, w)
      [] op = "operator.contains" -> operator_contains(v, w)
      [] op = "operator.gt" -> operator_gt(v, w)
      [] op = "operator.lt" -> operator_lt(v, w)
      [] op \in {"core._re_match_op", "from_dict._re_match_op"} -> re_match_op(v, w)

\* __name__ of a function object (core.py:188, core.py:190)
FuncName(f) ==
    CASE f = "operator.eq" -> "eq"
      [] f = "operator.contains" -> "contains"
      [] f = "operator.gt" -> "gt"
      [] f = "operator.lt" -> "lt"
      [] f = "core._re_match_op" -> "_re_match_op"
      [] f = "from_dict._re_match_op" -> "_re_match_op"
      [] f = "builtins.any" -> "any"
      [] f = "builtins.all" -> "all"

\* any(op(v, value) for v in values): the generator is consumed from index i;
\* the first true element ends it; an element that raises ends it by raising
RECURSIVE builtins_any(_, _, _, _)
builtins_any(op, values, value, i) ==
    IF i > Len(values) THEN "False"
    ELSE LET r == CallOp(op, values[i], value)
         IN  IF r = "False" THEN builtins_any(op, values, value, i + 1) ELSE r

\* all(op(v, value) for v in values): the first false element ends it
RECURSIVE builtins_all(_, _, _, _)
builtins_all(op, values, value, i) ==
    IF i > Len(values) THEN "True"
    ELSE LET r == CallOp(op, values[i], value)
         IN  IF r = "True" THEN builtins_all(op, values, value, i + 1) ELSE r

CallQuantifier(q, op, values, value) ==
    IF q = "builtins.any" THEN builtins_any(op, values, value, 1)
    ELSE builtins_all(op, values, value, 1)

(***************************************************************************)
(* Expressions (core.py:79-164) and evaluation.                            *)
(***************************************************************************)
And(l, r) == [kind |-> "And", left |-> l, right |-> r]
Or(l, r) == [kind |-> "Or", left |-> l, right |-> r]
Not(e) == [kind |-> "Not", expression |-> e]
Condition(path, op, value, quantifier) ==
    [kind |-> "Condition", path |-> path, op |-> op, value |-> value,
     quantifier |-> quantifier]

\* list(DotPath(path).find(data)): the path locator is an external library;
\* a document is represented by what the locator does for each path: it
\* raises, or it yields a sequence of matched values
DotPath_find(path, d) == d[path]

Raises == [raised |-> TRUE, values |-> <<>>]
Yields(vs) == [raised |-> FALSE, values |-> vs]

\* The body of the try block of Condition.evaluate (core.py:174-178):
\* "True", "False", or "Raise" when the locator or a comparison raises
Condition_try(c, d) ==
    LET found == DotPath_find(c.path, d)
    IN  IF found.raised THEN "Raise"
        ELSE IF found.values = <<>> THEN "False"
        ELSE CallQuantifier(c.quantifier, c.op, found.values, c.value)

\* Condition.evaluate without the except clause: the exception leaves it
Condition_evaluate_uncaught(c, d) ==
    LET r == Condition_try(c, d)
    IN  IF r = "Raise" THEN [raised |-> TRUE, res |-> FALSE]
        ELSE [raised |-> FALSE, res |-> (r = "True")]

\* Condition.evaluate: `except Exception: return False` around the body
Condition_evaluate(c, d) ==
    LET r == Condition_try(c, d)
    IN  IF r = "Raise" THEN [raised |-> FALSE, res |-> FALSE]
        ELSE [raised |-> FALSE, res |-> (r = "True")]

\* evaluate(e, d, pos): the result of e.evaluate(d), whether it ended by an
\* exception, and the sequence of node evaluations it made, each named by the
\* node's position under the root and listed when it returns
Visit(pos, res) == [pos |-> pos, res |-> res]
Returned(res, trace) == [raised |-> FALSE, res |-> res, trace |-> trace]
Raised(trace) == [raised |-> TRUE, res |-> FALSE, trace |-> trace]

RECURSIVE evaluate(_, _, _)

\* And.evaluate with `&` for `and`: both operands are always evaluated
And_evaluate_eager(e, d, pos) ==
    LET l == evaluate(e.left, d, pos \o <<"left">>)
        r == evaluate(e.right, d, pos \o <<"right">>)
    IN  IF l.raised THEN Raised(l.trace)
        ELSE IF r.raised THEN Raised(l.trace \o r.trace)
        ELSE Returned(l.res /\ r.res,
                      l.trace \o r.trace \o <<Visit(pos, l.res /\ r.res)>>)

\* return self.left.evaluate(data) and self.right.evaluate(data)
And_evaluate(e, d, pos) ==
    LET l == evaluate(e.left, d, pos \o <<"left">>)
    IN  IF l.raised THEN Raised(l.trace)
        ELSE IF ~l.res THEN Returned(FALSE, l.trace \o <<Visit(pos, FALSE)>>)
        ELSE LET r == evaluate(e.right, d, pos \o <<"right">>)
             IN  IF r.raised THEN Raised(l.trace \o r.trace)
                 ELSE Returned(r.res, l.trace \o r.trace \o <<Visit(pos, r.res)>>)

\* return self.left.evaluate(data) or self.right.evaluate(data)
Or_evaluate(e, d, pos) ==
    LET l == evaluate(e.left, d, pos \o <<"left">>)
    IN  IF l.raised THEN Raised(l.trace)
        ELSE IF l.res THEN Returned(TRUE, l.trace \o <<Visit(pos, TRUE)>>)
        ELSE LET r == evaluate(e.right, d, pos \o <<"right">>)
             IN  IF r.raised THEN Raised(l.trace \o r.trace)
                 ELSE Returned(r.res, l.trace \o r.trace \o <<Visit(pos, r.res)>>)

\* return not self.expression.evaluate(data)
Not_evaluate(e, d, pos) ==
    LET i == evaluate(e.expression, d, pos \o <<"expression">>)
    IN  IF i.raised THEN Raised(i.trace)
        ELSE Returned(~i.res, i.trace \o <<Visit(pos, ~i.res)>>)

evaluate(e, d, pos) ==
    CASE e.kind = "And" -> And_evaluate(e, d, pos)
      [] e.kind = "Or" -> Or_evaluate(e, d, pos)
      [] e.kind = "Not" -> Not_evaluate(e, d, pos)
      [] e.kind = "Condition" ->
            LET b == Condition_evaluate(e, d)
            IN  IF b.raised THEN Raised(<<>>)
                ELSE Returned(b.res, <<Visit(pos, b.res)>>)

\* Query.__and__ with its operands the other way round
Query_and_swapped(q, other) == [expression |-> And(other.expression, q.expression)]

\* Query (core.py:6-37)
Query(e) == [expression |-> e]
Query_evaluate(q, d) == evaluate(q.expression, d, <<>>)
Query_and(q, other) == Query(And(q.expression, other.expression))
Query_or(q, other) == Query(Or(q.expression, other.expression))
Query_invert(q) == Query(Not(q.expression))

\* The factory functions (core.py:231-323)
equals(path, value) == Query(Condition(path, "operator.eq", value, "builtins.any"))
contains(path, value) == Query(Condition(path, "operator.contains", value, "builtins.any"))
greater(path, value) == Query(Condition(path, "operator.gt", value, "builtins.any"))
less(path, value) == Query(Condition(path, "operator.lt", value, "builtins.any"))
all_equals(path, value) == Query(Condition(path, "operator.eq", value, "builtins.all"))
all_contains(path, value) == Query(Condition(path, "operator.contains", value, "builtins.all"))
all_greater(path, value) == Query(Condition(path, "operator.gt", value, "builtins.all"))
all_less(path, value) == Query(Condition(path, "operator.lt", value, "builtins.all"))
matches(path, regex) == Query(Condition(path, "core._re_match_op", regex, "builtins.any"))
all_matches(path, regex) == Query(Condition(path, "core._re_match_op", regex, "builtins.all"))

(***************************************************************************)
(* Serialization (core.py:90-225).  A tagged tree is a dict: a record with *)
(* field type.  from_dict returns the Expression or the exception, and the *)
(* dict as the call leaves it: Expression.from_dict pops "type" from the   *)
(* dict it is given.                                                       *)
(***************************************************************************)
RECURSIVE to_dict(_)
to_dict(e) ==
    CASE e.kind = "And" ->
            [type |-> "and", left |-> to_dict(e.left), right |-> to_dict(e.right)]
      [] e.kind = "Or" ->
            [type |-> "or", left |-> to_dict(e.left), right |-> to_dict(e.right)]
      [] e.kind = "Not" -> [type |-> "not", expression |-> to_dict(e.expression)]
      [] e.kind = "Condition" ->
            [type |-> "condition", path |-> e.path, op |-> FuncName(e.op),
             value |-> e.value, quantifier |-> FuncName(e.quantifier)]

\* OP_MAP with the key "matches" for the regular-expression operator
OP_MAP_get_matches(op_name) ==
    CASE op_name = "eq" -> <<"operator.eq">>
      [] op_name = "contains" -> <<"operator.contains">>
      [] op_name = "gt" -> <<"operator.gt">>
      [] op_name = "lt" -> <<"operator.lt">>
      [] op_name = "matches" -> <<"from_dict._re_match_op">>
      [] OTHER -> <<>>

\* OP_MAP.get(op_name) and QUANTIFIER_MAP.get(quantifier_name) of
\* Condition.from_dict: <<function>>, or <<>> for None
OP_MAP_get(op_name) ==
    CASE op_name = "eq" -> <<"operator.eq">>
      [] op_name = "contains" -> <<"operator.contains">>
      [] op_name = "gt" -> <<"operator.gt">>
      [] op_name = "lt" -> <<"operator.lt">>
      [] op_name = "_re_match_op" -> <<"from_dict._re_match_op">>
      [] OTHER -> <<>>

QUANTIFIER_MAP_get(quantifier_name) ==
    CASE quantifier_name = "any" -> <<"builtins.any">>
      [] quantifier_name = "all" -> <<"builtins.all">>
      [] OTHER -> <<>>

Built(e, d) == [ok |-> TRUE, expr |-> e, data |-> d]
Failed(err, d) == [ok |-> FALSE, err |-> err, data |-> d]

Has(d, key) == key \in DOMAIN d
Without(d, key) == [k \in DOMAIN d \ {key} |-> d[k]]
With(d, key, v) == [k \in DOMAIN d |-> IF k = key THEN v ELSE d[k]]

Condition_from_dict(d) ==
    IF ~Has(d, "op") THEN Failed("KeyError", d)
    ELSE IF OP_MAP_get(d.op) = <<>> THEN Failed("ValueError: Unknown operator function", d)
    ELSE IF ~Has(d, "quantifier") THEN Failed("KeyError", d)
    ELSE IF QUANTIFIER_MAP_get(d.quantifier) = <<>>
    THEN Failed("ValueError: Unknown quantifier function", d)
    ELSE IF ~Has(d, "path") \/ ~Has(d, "value") THEN Failed("KeyError", d)
    ELSE Built(Condition(d.path, OP_MAP_get(d.op)[1], d.value,
                         QUANTIFIER_MAP_get(d.quantifier)[1]), d)

RECURSIVE from_dict(_)

\* And.from_dict and Or.from_dict: left, then right
Binary_from_dict(node_type, d) ==
    IF ~Has(d, "left") THEN Failed("KeyError", d)
    ELSE LET l == from_dict(d.left)
             dl == With(d, "left", l.data)
         IN  IF ~l.ok THEN Failed(l.err, dl)
             ELSE IF ~Has(d, "right") THEN Failed("KeyError", dl)
             ELSE LET r == from_dict(d.right)
                      dr == With(dl, "right", r.data)
                  IN  IF ~r.ok THEN Failed(r.err, dr)
                      ELSE Built(IF node_type = "and" THEN And(l.expr, r.expr)
                                 ELSE Or(l.expr, r.expr), dr)

Not_from_dict(d) ==
    IF ~Has(d, "expression") THEN Failed("KeyError", d)
    ELSE LET i == from_dict(d.expression)
             di == With(d, "expression", i.data)
         IN  IF ~i.ok THEN Failed(i.err, di) ELSE Built(Not(i.expr), di)

\* Expression.from_dict: node_type = data.pop("type"), then the dispatch
from_dict(d) ==
    IF ~Has(d, "type") THEN Failed("KeyError", d)
    ELSE LET node_type == d.type
             popped == Without(d, "type")
         IN  CASE node_type \in {"and", "or"} -> Binary_from_dict(node_type, popped)
               [] node_type = "not" -> Not_from_dict(popped)
               [] node_type = "condition" -> Condition_from_dict(popped)
               [] OTHER -> Failed("ValueError: Unknown expression type", popped)

(***************************************************************************)
(* JSON text.  json.dumps writes an int as its digits and a string in      *)
(* double quotes; json.loads reads them back.  JsonScalars lists the JSON  *)
(* scalars of the model as <<text, value>>.                                *)
(***************************************************************************)
JsonScalars ==
    {<<"1", JInt(1)>>, <<"2", JInt(2)>>, <<"3", JInt(3)>>, <<"10", JInt(10)>>,
     <<"\"a\"", JStr("a")>>, <<"\"1\"", JStr("1")>>, <<"\"x\"", JStr("x")>>,
     <<"\"10\"", JStr("10")>>}

IsJson(text) == \E p \in JsonScalars : p[1] = text
json_loads(text) == (CHOOSE p \in JsonScalars : p[1] = text)[2]
json_dumps(v) == (CHOOSE p \in JsonScalars : p[2] = v)[1]

\* The tagged tree as JSON text holds it, and back: every condition's value
\* is written by json.dumps and read by json.loads
RECURSIVE dumps_tree(_)
dumps_tree(d) ==
    CASE d.type \in {"and", "or"} ->
            [type |-> d.type, left |-> dumps_tree(d.left), right |-> dumps_tree(d.right)]
      [] d.type = "not" -> [type |-> d.type, expression |-> dumps_tree(d.expression)]
      [] d.type = "condition" -> With(d, "value", json_dumps(d.value))

RECURSIVE loads_tree(_)
loads_tree(d) ==
    CASE d.type \in {"and", "or"} ->
            [type |-> d.type, left |-> loads_tree(d.left), right |-> loads_tree(d.right)]
      [] d.type = "not" -> [type |-> d.type, expression |-> loads_tree(d.expression)]
      [] d.type = "condition" -> With(d, "value", json_loads(d.value))

(***************************************************************************)
(* DSLParser (dsl.py).  pos counts consumed tokens, as self.pos does; a  *)
(* parse function returns the Query and the new pos, or the ValueError.    *)
(***************************************************************************)
OPERATORS == {"equals", "contains", "greater", "less", "matches"}

\* OPERATORS[operator_str](path, value), dsl.py:19-25
OPERATORS_call(operator_str, path, value) ==
    CASE operator_str = "equals" -> equals(path, value)
      [] operator_str = "contains" -> contains(path, value)
      [] operator_str = "greater" -> greater(path, value)
      [] operator_str = "less" -> less(path, value)
      [] operator_str = "matches" -> matches(path, value)

\* ALL_OPERATORS[operator_str](path, value), dsl.py:27-33
ALL_OPERATORS_call(operator_str, path, value) ==
    CASE operator_str = "equals" -> all_equals(path, value)
      [] operator_str = "contains" -> all_contains(path, value)
      [] operator_str = "greater" -> all_greater(path, value)
      [] operator_str = "less" -> all_less(path, value)
      [] operator_str = "matches" -> all_matches(path, value)

\* json.loads(value_str), falling back to the raw string on JSONDecodeError
\* (dsl.py:121-124); a token of the model that is no JSON scalar is not valid
\* JSON
ParseValue(value_str) ==
    IF IsJson(value_str) THEN json_loads(value_str) ELSE JStr(value_str)

\* current_token(): <<token>>, or <<>> for None
current_token(toks, pos) == IF pos < Len(toks) THEN <<toks[pos + 1]>> ELSE <<>>

Parsed(q, pos) == [ok |-> TRUE, query |-> q, pos |-> pos]
ParseError(err, pos) == [ok |-> FALSE, err |-> err, pos |-> pos]

parse_condition(toks, pos0) ==
    LET t0 == current_token(toks, pos0)
        hasQ == t0 \in {<<"any">>, <<"all">>}
        quantifier == IF hasQ THEN t0[1] ELSE "any"
        pos1 == IF hasQ THEN pos0 + 1 ELSE pos0
        operator_str == current_token(toks, pos1)
    IN  IF operator_str = <<>> \/ operator_str[1] \notin OPERATORS
        THEN ParseError("Unknown operator", pos1)
        ELSE LET path == current_token(toks, pos1 + 1)
             IN  IF path = <<>> THEN ParseError("requires a path argument", pos1 + 1)
                 ELSE LET value_str == current_token(toks, pos1 + 2)
                      IN  IF value_str = <<>>
                          THEN ParseError("requires a value argument", pos1 + 2)
                          ELSE LET value == ParseValue(value_str[1])
                               IN  Parsed(IF quantifier = "all"
                                          THEN ALL_OPERATORS_call(operator_str[1], path[1], value)
                                          ELSE OPERATORS_call(operator_str[1], path[1], value),
                                          pos1 + 3)

RECURSIVE parse_expression(_, _)
RECURSIVE parse_term(_, _)
RECURSIVE parse_factor(_, _)
RECURSIVE expression_loop(_, _, _)
RECURSIVE term_loop(_, _, _)

\* while self.current_token() == "or": self.advance(); node |= self.parse_term()
expression_loop(toks, node, pos) ==
    IF current_token(toks, pos) = <<"or">>
    THEN LET t == parse_term(toks, pos + 1)
         IN  IF ~t.ok THEN t
             ELSE expression_loop(toks, Query_or(node, t.query), t.pos)
    ELSE Parsed(node, pos)

parse_expression(toks, pos) ==
    LET t == parse_term(toks, pos)
    IN  IF ~t.ok THEN t ELSE expression_loop(toks, t.query, t.pos)

\* while self.current_token() == "and": self.advance(); node &= self.parse_factor()
term_loop(toks, node, pos) ==
    IF current_token(toks, pos) = <<"and">>
    THEN LET f == parse_factor(toks, pos + 1)
         IN  IF ~f.ok THEN f
             ELSE term_loop(toks, Query_and(node, f.query), f.pos)
    ELSE Parsed(node, pos)

parse_term(toks, pos) ==
    LET f == parse_factor(toks, pos)
    IN  IF ~f.ok THEN f ELSE term_loop(toks, f.query, f.pos)

\* parse_factor whose `not` takes a whole term: ~self.parse_term()
parse_factor_not_term(toks, pos) ==
    LET token == current_token(toks, pos)
    IN  IF token = <<"not">>
        THEN LET f == parse_term(toks, pos + 1)
             IN  IF ~f.ok THEN f ELSE Parsed(Query_invert(f.query), f.pos)
        ELSE IF token = <<"(">>
        THEN LET e == parse_expression(toks, pos + 1)
             IN  IF ~e.ok THEN e
                 ELSE IF current_token(toks, e.pos) # <<")">>
                 THEN ParseError("Mismatched parentheses", e.pos)
                 ELSE Parsed(e.query, e.pos + 1)
        ELSE parse_condition(toks, pos)

parse_factor(toks, pos) ==
    LET token == current_token(toks, pos)
    IN  IF token = <<"not">>
        THEN LET f == parse_factor(toks, pos + 1)
             IN  IF ~f.ok THEN f ELSE Parsed(Query_invert(f.query), f.pos)
        ELSE IF token = <<"(">>
        THEN LET e == parse_expression(toks, pos + 1)
             IN  IF ~e.ok THEN e
                 ELSE IF current_token(toks, e.pos) # <<")">>
                 THEN ParseError("Mismatched parentheses", e.pos)
                 ELSE Parsed(e.query, e.pos + 1)
        ELSE parse_condition(toks, pos)

\* parse without the check for tokens left after the expression
DSLParser_parse_no_end_check(toks) ==
    IF toks = <<>> THEN ParseError("Query cannot be empty", 0)
    ELSE parse_expression(toks, 0)

\* DSLParser(tokens).parse()
DSLParser_parse(toks) ==
    IF toks = <<>> THEN ParseError("Query cannot be empty", 0)
    ELSE LET q == parse_expression(toks, 0)
         IN  IF ~q.ok THEN q
             ELSE IF current_token(toks, q.pos) # <<>>
             THEN ParseError("Unexpected token at end of query", q.pos)
             ELSE q

(***************************************************************************)
(* QuerySet.resolve (queryset.py:41-86).                                   *)
(*                                                                         *)
(* The filesystem maps a source descriptor to what is there: nothing, a    *)
(* file, or a directory of files.  A file has a suffix and either cannot   *)
(* be opened (IOError), holds bytes that are not text in the encoding of   *)
(* open(path, "r") (UnicodeDecodeError on the first read), or holds text:  *)
(* its lines for a .jsonl file, its JSON content otherwise.                *)
(* resolve is a generator consumed to its end; what it does is the list of *)
(* its events in order: a document yielded, or a warning printed.          *)
(***************************************************************************)
Missing == [kind |-> "missing"]
File(suffix, state, content) ==
    [kind |-> "file", suffix |-> suffix, state |-> state, content |-> content]
Directory(json, jsonl) == [kind |-> "dir", json |-> json, jsonl |-> jsonl]

\* Lines of a .jsonl file and content of a .json file
BlankLine == [line |-> "blank"]
InvalidLine == [line |-> "invalid"]
DocLine(d) == [line |-> "doc", doc |-> d]
InvalidJson == [json |-> "invalid"]
JsonList(ds) == [json |-> "list", docs |-> ds]
JsonDoc(d) == [json |-> "doc", doc |-> d]

YieldEvent(src, d) == [event |-> "yield", src |-> src, doc |-> d]
WarnEvent(src) == [event |-> "warning", src |-> src]

\* QuerySet._expand_sources for one pattern: the files it yields, or the
\* warning "Source not found or supported"
expand_source(entry) ==
    IF entry.kind = "dir" THEN [files |-> entry.json \o entry.jsonl, warned |-> FALSE]
    ELSE IF entry.kind = "file" THEN [files |-> <<entry>>, warned |-> FALSE]
    ELSE [files |-> <<>>, warned |-> TRUE]

\* if self.query.evaluate(doc): yield doc
yield_if_match(q, src, d) ==
    IF Query_evaluate(q, d).res THEN <<YieldEvent(src, d)>> ELSE <<>>

\* The line loop with the try inside it: an invalid line is reported and the
\* loop goes on with the next line
RECURSIVE resolve_lines_skip_invalid(_, _, _)
resolve_lines_skip_invalid(q, src, lines) ==
    IF lines = <<>> THEN [events |-> <<>>, error |-> "none"]
    ELSE LET rest == resolve_lines_skip_invalid(q, src, Tail(lines))
         IN  IF Head(lines).line = "blank" THEN rest
             ELSE IF Head(lines).line = "invalid"
             THEN [events |-> rest.events, error |-> "JSONDecodeError"]
             ELSE [events |-> yield_if_match(q, src, Head(lines).doc) \o rest.events,
                   error |-> rest.error]

\* for line in f: if line.strip(): doc = json.loads(line); ...
\* A JSONDecodeError leaves the loop and the file.
RECURSIVE resolve_lines(_, _, _)
resolve_lines(q, src, lines) ==
    IF lines = <<>> THEN [events |-> <<>>, error |-> "none"]
    ELSE IF Head(lines).line = "blank" THEN resolve_lines(q, src, Tail(lines))
    ELSE IF Head(lines).line = "invalid" THEN [events |-> <<>>, error |-> "JSONDecodeError"]
    ELSE LET rest == resolve_lines(q, src, Tail(lines))
         IN  [events |-> yield_if_match(q, src, Head(lines).doc) \o rest.events,
              error |-> rest.error]

RECURSIVE resolve_docs(_, _, _)
resolve_docs(q, src, ds) ==
    IF ds = <<>> THEN <<>>
    ELSE yield_if_match(q, src, Head(ds)) \o resolve_docs(q, src, Tail(ds))

\* The body of the try block for one file: its events, and the exception
\* that ended it, if any
resolve_try(q, src, f) ==
    IF f.state = "unopenable" THEN [events |-> <<>>, error |-> "IOError"]
    ELSE IF f.state = "undecodable" THEN [events |-> <<>>, error |-> "UnicodeDecodeError"]
    ELSE IF f.suffix = ".jsonl" THEN resolve_lines(q, src, f.content)
    ELSE IF f.content.json = "invalid" THEN [events |-> <<>>, error |-> "JSONDecodeError"]
    ELSE IF f.content.json = "list"
    THEN [events |-> resolve_docs(q, src, f.content.docs), error |-> "none"]
    ELSE [events |-> yield_if_match(q, src, f.content.doc), error |-> "none"]

\* except (IOError, json.JSONDecodeError): the warning is printed and the
\* loop continues; any other exception leaves resolve.  t is what the try
\* block did.
resolve_except(t, src) ==
    IF t.error \in {"IOError", "JSONDecodeError"}
    THEN [events |-> t.events \o <<WarnEvent(src)>>, raised |-> FALSE]
    ELSE IF t.error = "none" THEN [events |-> t.events, raised |-> FALSE]
    ELSE [events |-> t.events, raised |-> TRUE]

\* One file: the try block, then the except clause
resolve_file(q, src, f) == resolve_except(resolve_try(q, src, f), src)

\* One iteration of a loop followed by the rest of the loop: an exception
\* that leaves the iteration leaves the loop
ThenRest(first, rest) ==
    IF first.raised THEN first
    ELSE [events |-> first.events \o rest.events, raised |-> rest.raised]

\* for source_path in ...: over the files one source expands to
RECURSIVE resolve_files(_, _, _)
resolve_files(q, src, files) ==
    IF files = <<>> THEN [events |-> <<>>, raised |-> FALSE]
    ELSE ThenRest(resolve_file(q, src, Head(files)), resolve_files(q, src, Tail(files)))

\* One source: the warning of _expand_sources, or the files it expands to
resolve_source(q, i, x) ==
    IF x.warned THEN [events |-> <<WarnEvent(i)>>, raised |-> FALSE]
    ELSE resolve_files(q, i, x.files)

\* Source i followed by the sources after it: the events, and the source at
\* which an exception left the generator (0: none)
ThenSources(here, i, rest) ==
    IF here.raised THEN [events |-> here.events, abortedAt |-> i]
    ELSE [events |-> here.events \o rest.events, abortedAt |-> rest.abortedAt]

\* resolve over sources i..
RECURSIVE resolve_from(_, _, _, _)
resolve_from(q, sources, filesystem, i) ==
    IF i > Len(sources) THEN [events |-> <<>>, abortedAt |-> 0]
    ELSE ThenSources(resolve_source(q, i, expand_source(filesystem[sources[i]])), i,
                     resolve_from(q, sources, filesystem, i + 1))

QuerySet(query, sources) == [query |-> query, sources |-> sources]
QuerySet_resolve(q) == resolve_from(q.query, q.sources, fs, 1)

(***************************************************************************)
(* QuerySet.to_json / from_json (queryset.py:27-39) and main (cli.py).     *)
(* The text on a pipe is NoText before anything ran, EmptyText when the    *)
(* writer died before printing, or the JSON text of a QuerySet.            *)
(***************************************************************************)
NoText == [kind |-> "none"]
EmptyText == [kind |-> "empty"]

QuerySet_to_json(q) ==
    [kind |-> "json",
     query_ast |-> dumps_tree(to_dict(q.query.expression)),
     sources |-> q.sources]

\* json.loads, Expression.from_dict(data["query_ast"]), cls(Query(..), data["sources"])
FromJson(e, sources) ==
    IF ~e.ok THEN [ok |-> FALSE, err |-> e.err]
    ELSE [ok |-> TRUE, qs |-> QuerySet(Query(e.expr), sources)]

QuerySet_from_json(text) ==
    IF text.kind # "json" THEN [ok |-> FALSE, err |-> "JSONDecodeError"]
    ELSE FromJson(from_dict(loads_tree(text.query_ast)), text.sources)

\* An invocation ends with a status, what it printed, and the QuerySet it
\* held: <<qs>>, or <<>> when it built none
Exit(status, text, held) == [status |-> status, text |-> text, held |-> held]

\* print(qs.to_json()) and the normal end of main
PrintQuerySet(q) == Exit(0, QuerySet_to_json(q), <<q>>)

\* main for `query DSL SOURCES...` (cli.py:42-47), query being what
\* DSLParser(args.dsl).parse() did
main_query_parsed(query, sources) ==
    IF ~query.ok THEN Exit(1, EmptyText, <<>>)
    ELSE PrintQuerySet(QuerySet(query.query, sources))

main_query(dsl, sources) == main_query_parsed(DSLParser_parse(dsl), sources)

\* The query of the new QuerySet: qs.query & new_query, qs.query | new_query,
\* ~qs.query
Combined(name, query, new_query) ==
    IF name = "not" THEN Query_invert(query)
    ELSE IF name = "and" THEN Query_and(query, new_query.query)
    ELSE Query_or(query, new_query.query)

\* main for `and DSL`, `or DSL` and `not` (cli.py:54-75), read being what
\* QuerySet.from_json(stdin) did and new_query what DSLParser(args.dsl).parse()
\* did (`not` parses nothing)
main_combine_read(name, read, new_query) ==
    IF ~read.ok THEN Exit(1, EmptyText, <<>>)
    ELSE IF name # "not" /\ ~new_query.ok THEN Exit(1, EmptyText, <<read.qs>>)
    ELSE PrintQuerySet(QuerySet(Combined(name, read.qs.query, new_query),
                                read.qs.sources))

main_combine(name, dsl, stdin) ==
    main_combine_read(name, QuerySet_from_json(stdin), DSLParser_parse(dsl))

(***************************************************************************)
(* SpecEval: Query.evaluate applied to an expression and a document.       *)
(***************************************************************************)
MaxMatched == 3
MaxNodes == 5

Paths == {"x", "y"}

\* Values a path can match in a document, and values a condition compares to
MatchedValues == {JInt(1), JInt(3), JStr("a"), JStr("ab"), JList(<<JInt(3), JStr("a")>>)}
CondValues == {JInt(2), JStr("a"), JStr("(")}

SeqsUpTo(S, n) == UNION {[1..k -> S] : k \in 0..n}

FindOutcomes == {Raises} \cup {Yields(vs) : vs \in SeqsUpTo(MatchedValues, MaxMatched)}

\* Every condition the factory functions build on path x
FactoryConditions ==
    UNION {{equals("x", v).expression, contains("x", v).expression,
            greater("x", v).expression, less("x", v).expression,
            matches("x", v).expression, all_equals("x", v).expression,
            all_contains("x", v).expression, all_greater("x", v).expression,
            all_less("x", v).expression, all_matches("x", v).expression}
           : v \in CondValues}

\* Trees of exactly n nodes over the leaves, built by the combinators
\* Expression.__and__ / __or__ / __invert__ (core.py:47-57)
LeafX == greater("x", JInt(2)).expression
LeafY == all_equals("y", JStr("a")).expression
LeafConditions == {LeafX, LeafY}

RECURSIVE TreesOfSize(_)
TreesOfSize(n) ==
    IF n = 1 THEN LeafConditions
    ELSE {Not(e) : e \in TreesOfSize(n - 1)}
         \cup UNION {UNION {{And(l, r), Or(l, r)} :
                            l \in TreesOfSize(k), r \in TreesOfSize(n - 1 - k)}
                     : k \in 1..(n - 2)}

Trees == UNION {TreesOfSize(n) : n \in 1..MaxNodes}

TreeOutcomes ==
    {Raises, Yields(<<>>), Yields(<<JInt(1)>>), Yields(<<JInt(3)>>),
     Yields(<<JStr("a")>>), Yields(<<JStr("a"), JStr("b")>>)}

NotParsed == [done |-> FALSE]
NoCommand == [name |-> "", dsl |-> <<>>, status |-> 0]
NotResolved == [done |-> FALSE, events |-> <<>>, abortedAt |-> 0]
NotEvaluated == [done |-> FALSE, raised |-> FALSE, res |-> FALSE, trace |-> <<>>]

\* The parts of the state a specification does not use stay as they are here
IdleEval == expr = LeafX /\ data = [p \in Paths |-> Raises] /\ outcome = NotEvaluated
IdleParse == tokens = <<>> /\ parsed = NotParsed
IdleDict == given = <<>> /\ tree = <<>> /\ calls = <<>>
IdleResolve ==
    /\ queryset = QuerySet(Query(LeafX), <<>>)
    /\ fs = <<>>
    /\ resolved = NotResolved

IdleCli ==
    /\ wire = NoText /\ memory = <<>> /\ incoming = NoText
    /\ command = NoCommand /\ origin = <<>> /\ stage = 0

InitEval ==
    /\ \/ /\ expr \in FactoryConditions
          /\ data \in [Paths -> FindOutcomes]
          /\ data["y"] = Raises
       \/ /\ expr \in Trees
          /\ data \in [Paths -> TreeOutcomes]
    /\ outcome = NotEvaluated
    /\ IdleParse /\ IdleResolve /\ IdleCli /\ IdleDict

\* Query(expr).evaluate(data)
Evaluate ==
    /\ ~outcome.done
    /\ LET r == Query_evaluate(Query(expr), data)
       IN  outcome' = [done |-> TRUE, raised |-> r.raised, res |-> r.res,
                       trace |-> r.trace]
    /\ UNCHANGED <<expr, data, parseVars, resolveVars, cliVars, dictVars>>

NextEval == Evaluate

SpecEval == InitEval /\ [][NextEval]_vars

(***************************************************************************)
(* SpecParse: DSLParser(tokens).parse() applied to a token sequence.       *)
(***************************************************************************)
MaxPieces == 6
MaxTokens == 4

\* Inputs are made of pieces: the structure tokens and "COND", which stands
\* for a whole condition; the k-th condition of an input is CondTokens(k), so
\* that the conditions of one input differ and their order shows in the tree.
\* Other inputs are made of single tokens in any arrangement.
DslOperators == <<"greater", "less", "equals", "contains", "matches">>
DslPaths == <<"a", "b", "c", "d">>
DslValues == <<"1", "x", "10">>

CondTokens(k) ==
    (IF k % 2 = 0 THEN <<"all">> ELSE IF k % 3 = 0 THEN <<"any">> ELSE <<>>)
    \o <<DslOperators[((k - 1) % Len(DslOperators)) + 1],
         DslPaths[((k - 1) % Len(DslPaths)) + 1],
         DslValues[((k - 1) % Len(DslValues)) + 1]>>

Pieces == {"COND", "or", "and", "not", "(", ")"}
RawTokens == {"equals", "foo", "x", "(", ")", "and", "not", "all"}

\* The tokens of a sequence of pieces, k being the number of the next condition
RECURSIVE Flatten(_, _)
Flatten(ps, k) ==
    IF ps = <<>> THEN <<>>
    ELSE IF Head(ps) = "COND" THEN CondTokens(k) \o Flatten(Tail(ps), k + 1)
    ELSE <<Head(ps)>> \o Flatten(Tail(ps), k)

InitParse ==
    /\ \/ \E k \in 0..MaxPieces : \E ps \in [1..k -> Pieces] : tokens = Flatten(ps, 1)
       \/ \E k \in 0..MaxTokens : tokens \in [1..k -> RawTokens]
    /\ parsed = NotParsed
    /\ IdleEval /\ IdleResolve /\ IdleCli /\ IdleDict

Parse ==
    /\ ~parsed.done
    /\ parsed' = [done |-> TRUE, result |-> DSLParser_parse(tokens)]
    /\ UNCHANGED <<tokens, evalVars, resolveVars, cliVars, dictVars>>

NextParse == Parse

SpecParse == InitParse /\ [][NextParse]_vars

(***************************************************************************)
(* SpecResolve: QuerySet.resolve over a list of sources.                   *)
(***************************************************************************)
MaxSources == 3
MaxLines == 4

SourceNames == <<"s1", "s2", "s3", "s4", "s5">>

Doc(vs) == [p \in Paths |-> IF p = "x" THEN Yields(vs) ELSE Raises]
DocHigh == Doc(<<JInt(3)>>)
DocLow == Doc(<<JInt(1)>>)
DocBoth == Doc(<<JInt(1), JInt(3)>>)

GoodJson == File(".json", "text", JsonDoc(DocHigh))
GoodJsonl == File(".jsonl", "text", <<DocLine(DocHigh), BlankLine, DocLine(DocLow)>>)

SourceEntries ==
    {Missing,
     File(".json", "unopenable", <<>>),
     File(".json", "undecodable", <<>>),
     File(".json", "text", InvalidJson),
     GoodJson,
     File(".json", "text", JsonList(<<DocLow, DocBoth>>)),
     GoodJsonl,
     File(".jsonl", "text", <<DocLine(DocBoth), InvalidLine, DocLine(DocHigh)>>),
     Directory(<<GoodJson>>, <<GoodJsonl>>)}

LineKinds == {DocLine(DocHigh), DocLine(DocLow), BlankLine, InvalidLine}

ResolveQueries == {Query(LeafX), Query(Not(LeafX))}

InitResolve ==
    /\ \/ \E k \in 1..MaxSources :
            /\ fs \in [{SourceNames[i] : i \in 1..k} -> SourceEntries]
            /\ \E q \in ResolveQueries :
                  queryset = QuerySet(q, SubSeq(SourceNames, 1, k))
       \/ \E k \in 0..MaxLines : \E lines \in [1..k -> LineKinds] :
            /\ fs = ("s1" :> File(".jsonl", "text", lines) @@ "s2" :> GoodJson)
            /\ \E q \in ResolveQueries : queryset = QuerySet(q, <<"s1", "s2">>)
    /\ resolved = NotResolved
    /\ IdleEval /\ IdleParse /\ IdleCli /\ IdleDict

\* for doc in qs.resolve(): ... (cli.py:77-80), the generator run to its end
Resolve ==
    /\ ~resolved.done
    /\ resolved' = [done |-> TRUE] @@ QuerySet_resolve(queryset)
    /\ UNCHANGED <<queryset, fs, evalVars, parseVars, cliVars, dictVars>>

NextResolve == Resolve

SpecResolve == InitResolve /\ [][NextResolve]_vars

(***************************************************************************)
(* Spec: the pipeline  dotquery query DSL SOURCES | dotquery and DSL | ...  *)
(* Each action is one invocation of main, reading what the one before it   *)
(* printed.                                                                *)
(***************************************************************************)
MaxStages == 3

DslInputs ==
    {<<"equals", "a", "1">>,
     <<"all", "contains", "b", "x">>,
     <<"greater", "a", "10">>,
     <<"any", "less", "b", "1">>,
     <<"matches", "a", "x">>,
     <<"all", "matches", "b", "x">>,
     <<"not", "(", "all", "equals", "a", "x", "or", "less", "b", "10", ")">>,
     <<"equals", "a">>}

SourceLists == {<<"docs/">>, <<"a.json", "b.jsonl">>}

Init ==
    /\ IdleCli
    /\ IdleEval /\ IdleParse /\ IdleResolve /\ IdleDict

Invoke(name, dsl, r) ==
    /\ wire' = r.text
    /\ memory' = r.held
    /\ command' = [name |-> name, dsl |-> dsl, status |-> r.status]
    /\ incoming' = wire
    /\ stage' = stage + 1
    /\ UNCHANGED <<evalVars, parseVars, resolveVars, dictVars>>

CmdQuery ==
    /\ stage = 0
    /\ \E dsl \in DslInputs, sources \in SourceLists :
          /\ Invoke("query", dsl, main_query(dsl, sources))
          /\ origin' = sources

CmdAnd ==
    /\ stage \in 1..(MaxStages - 1)
    /\ \E dsl \in DslInputs : Invoke("and", dsl, main_combine("and", dsl, wire))
    /\ UNCHANGED origin

CmdOr ==
    /\ stage \in 1..(MaxStages - 1)
    /\ \E dsl \in DslInputs : Invoke("or", dsl, main_combine("or", dsl, wire))
    /\ UNCHANGED origin

CmdNot ==
    /\ stage \in 1..(MaxStages - 1)
    /\ Invoke("not", <<>>, main_combine("not", <<>>, wire))
    /\ UNCHANGED origin

Next == CmdQuery \/ CmdAnd \/ CmdOr \/ CmdNot

Spec == Init /\ [][Next]_vars

(***************************************************************************)
(* SpecFromDict: a caller holds one tagged tree (a dict) and passes it to  *)
(* Expression.from_dict, up to MaxCalls times.  The dict is passed by      *)
(* reference: what from_dict does to it is what the caller holds after.    *)
(***************************************************************************)
MaxCalls == 2

\* The tagged trees Expression.to_dict writes
WellFormedDicts == {to_dict(e) : e \in Trees \cup FactoryConditions}

\* Dicts from_dict raises on: unknown type, no type, no right operand, an
\* unknown type under an `and`, an operator name OP_MAP does not have
MalformedDicts ==
    {[type |-> "xor"],
     [left |-> to_dict(LeafX)],
     [type |-> "and", left |-> to_dict(LeafX)],
     [type |-> "and", left |-> to_dict(LeafX), right |-> [type |-> "xor"]],
     [type |-> "not", expression |-> [expression |-> to_dict(LeafY)]],
     With(to_dict(LeafX), "op", "matches")}

InitFromDict ==
    /\ given \in WellFormedDicts \cup MalformedDicts
    /\ tree = given
    /\ calls = <<>>
    /\ IdleEval /\ IdleParse /\ IdleResolve /\ IdleCli

\* The caller after Expression.from_dict(tree) returned or raised r
AfterFromDict(r) ==
    /\ tree' = r.data
    /\ calls' = Append(calls, Without(r, "data"))

FromDict ==
    /\ Len(calls) < MaxCalls
    /\ AfterFromDict(from_dict(tree))
    /\ UNCHANGED <<given, evalVars, parseVars, resolveVars, cliVars>>

NextFromDict == FromDict

SpecFromDict == InitFromDict /\ [][NextFromDict]_vars

(***************************************************************************)
(* Claims about evaluation (SpecEval).                                     *)
(***************************************************************************)
found == DotPath_find(expr.path, data)
Pred(i) == CallOp(expr.op, found.values[i], expr.value)

\* The comparison on matched value i is made and raises: for any, every
\* earlier comparison was false; for all, every earlier one was true
ComparisonRaises ==
    /\ expr.kind = "Condition"
    /\ ~found.raised
    /\ \E i \in 1..Len(found.values) :
          /\ Pred(i) = "Raise"
          /\ \A j \in 1..(i - 1) :
                Pred(j) = (IF expr.quantifier = "builtins.any" THEN "False" ELSE "True")

\* C3: evaluation never ends by an exception, for any expression and any
\* document; a condition whose path locator raises or matches no value is
\* false under both quantifiers and for every operator, and a condition
\* whose comparison raises is false.
C3_NoExceptionFalseResult ==
    outcome.done =>
        /\ ~outcome.raised
        /\ (expr.kind = "Condition" /\ (found.raised \/ found.values = <<>>)
                => outcome.res = FALSE)
        /\ (ComparisonRaises => outcome.res = FALSE)

C3_Witness ==
    /\ outcome.done
    /\ ComparisonRaises
    /\ expr.quantifier = "builtins.any"
    /\ \E i \in 1..Len(found.values) : Pred(i) = "True"
    /\ outcome.res = FALSE

\* C4: over a non-empty sequence of matched values, whatever its order, a
\* condition with quantifier any is true exactly when the operator's predicate
\* holds for at least one matched value, and with quantifier all exactly when
\* it holds for every matched value.
C4_QuantifierExact ==
    (outcome.done /\ expr.kind = "Condition" /\ ~found.raised /\ found.values # <<>>)
        => IF expr.quantifier = "builtins.any"
           THEN outcome.res = (\E i \in 1..Len(found.values) : Pred(i) = "True")
           ELSE outcome.res = (\A i \in 1..Len(found.values) : Pred(i) = "True")

\* The node at a position under the root, and its visit in the trace
RECURSIVE NodeAt(_, _)
NodeAt(e, pos) == IF pos = <<>> THEN e ELSE NodeAt(e[Head(pos)], Tail(pos))

RECURSIVE Positions(_, _)
Positions(e, pos) ==
    {pos} \cup
    CASE e.kind \in {"And", "Or"} ->
            Positions(e.left, pos \o <<"left">>) \cup Positions(e.right, pos \o <<"right">>)
      [] e.kind = "Not" -> Positions(e.expression, pos \o <<"expression">>)
      [] e.kind = "Condition" -> {}

VisitIndex(pos) ==
    IF \E i \in 1..Len(outcome.trace) : outcome.trace[i].pos = pos
    THEN CHOOSE i \in 1..Len(outcome.trace) : outcome.trace[i].pos = pos
    ELSE 0

IsPrefix(p, q) == Len(p) <= Len(q) /\ SubSeq(q, 1, Len(p)) = p

EvaluatedUnder(pos) == \E i \in 1..Len(outcome.trace) : IsPrefix(pos, outcome.trace[i].pos)

RoleOf(mode, t) ==
    CASE mode = "factor" ->
            IF t = "not" THEN [role |-> "not", next |-> "factor"]
            ELSE IF t = "(" THEN [role |-> "(", next |-> "factor"]
            ELSE IF t \in {"any", "all"} THEN [role |-> "quantifier", next |-> "operator"]
            ELSE IF t \in OPERATORS THEN [role |-> "operator", next |-> "path"]
            ELSE [role |-> "stop", next |-> "bad_operator"]
      [] mode = "operator" ->
            IF t \in OPERATORS THEN [role |-> "operator", next |-> "path"]
            ELSE [role |-> "stop", next |-> "bad_operator"]
      [] mode = "path" -> [role |-> "path", next |-> "value"]
      [] mode = "value" -> [role |-> "value", next |-> "after"]
      [] mode = "after" ->
            IF t \in {"and", "or"} THEN [role |-> t, next |-> "factor"]
            ELSE IF t = ")" THEN [role |-> ")", next |-> "after"]
            ELSE [role |-> "stop", next |-> "extra"]

RECURSIVE ScanFrom(_, _, _)
ScanFrom(toks, i, mode) ==
    IF i > Len(toks)
    THEN [roles |-> <<>>, end |-> IF mode = "after" THEN "complete" ELSE mode]
    ELSE LET r == RoleOf(mode, toks[i])
         IN  IF r.role = "stop" THEN [roles |-> <<>>, end |-> r.next]
             ELSE LET rest == ScanFrom(toks, i + 1, r.next)
                  IN  [roles |-> <<r.role>> \o rest.roles, end |-> rest.end]

Scan == ScanFrom(tokens, 1, "factor")

Count(roles, role, lo, hi) == Cardinality({i \in lo..hi : roles[i] = role})
Depth(roles, lo, hi) == Count(roles, "(", lo, hi) - Count(roles, ")", lo, hi)

UnmatchedClosing == \E i \in 1..Len(Scan.roles) : Depth(Scan.roles, 1, i) < 0
UnmatchedOpening == Depth(Scan.roles, 1, Len(Scan.roles)) > 0

\* C7: parse raises on the empty token sequence, on a token outside the
\* operator set where a condition is expected, on a missing path after an
\* operator, on a missing value after a path, on an unmatched opening or
\* closing parenthesis and on tokens left over after a complete expression;
\* when it returns a Query, every token has been consumed.
C7_ErrorsAndFullConsumption ==
    parsed.done =>
        /\ (\/ tokens = <<>>
            \/ Scan.end = "bad_operator"
            \/ Scan.end = "path"
            \/ Scan.end = "value"
            \/ UnmatchedOpening
            \/ UnmatchedClosing
            \/ Scan.end = "extra") => ~parsed.result.ok
        /\ parsed.result.ok => parsed.result.pos = Len(tokens)

\* A closing parenthesis after a complete expression, with none open
C7_Witness ==
    /\ parsed.done
    /\ Scan.end = "complete"
    /\ UnmatchedClosing
    /\ ~UnmatchedOpening
    /\ ~parsed.result.ok

\* The tree the grammar gives tokens lo..hi: the rightmost `or` outside
\* parentheses splits them, else the rightmost `and` outside parentheses,
\* else a leading `not` negates the rest, else the parentheses are dropped,
\* else they are one condition.
RightmostTop(roles, role, lo, hi) ==
    LET S == {k \in lo..hi : roles[k] = role /\ Depth(roles, lo, k - 1) = 0}
    IN  IF S = {} THEN 0 ELSE CHOOSE k \in S : \A j \in S : j <= k

GrammarCondition(toks, roles, lo, hi) ==
    Condition(toks[hi - 1],
              CASE toks[hi - 2] = "equals" -> "operator.eq"
                [] toks[hi - 2] = "contains" -> "operator.contains"
                [] toks[hi - 2] = "greater" -> "operator.gt"
                [] toks[hi - 2] = "less" -> "operator.lt"
                [] toks[hi - 2] = "matches" -> "core._re_match_op",
              ParseValue(toks[hi]),
              IF roles[lo] = "quantifier" /\ toks[lo] = "all"
              THEN "builtins.all" ELSE "builtins.any")

RECURSIVE GrammarTree(_, _, _, _)
GrammarTree(toks, roles, lo, hi) ==
    LET o == RightmostTop(roles, "or", lo, hi)
        a == RightmostTop(roles, "and", lo, hi)
    IN  IF o > 0
        THEN Or(GrammarTree(toks, roles, lo, o - 1), GrammarTree(toks, roles, o + 1, hi))
        ELSE IF a > 0
        THEN And(GrammarTree(toks, roles, lo, a - 1), GrammarTree(toks, roles, a + 1, hi))
        ELSE IF roles[lo] = "not" THEN Not(GrammarTree(toks, roles, lo + 1, hi))
        ELSE IF roles[lo] = "(" THEN GrammarTree(toks, roles, lo + 1, hi - 1)
        ELSE GrammarCondition(toks, roles, lo, hi)

\* The first three conditions of an input, as Conditions
A == Condition("a", "operator.gt", JInt(1), "builtins.any")
B == Condition("b", "operator.lt", JStr("x"), "builtins.all")
C == Condition("c", "operator.eq", JInt(10), "builtins.any")

Yield(ps, e) ==
    tokens = Flatten(ps, 1) => parsed.result.ok /\ parsed.result.query.expression = e

\* C6: an accepted token sequence parses to the tree of the grammar's
\* precedence, or < and < not / parentheses < condition, binary operators
\* associating to the left; in particular 'A or B and C' is Or(A, And(B, C)),
\* 'A and B or C' is Or(And(A, B), C), 'not A and B' is And(Not(A), B),
\* 'A or B or C' is Or(Or(A, B), C) and 'not ( A and B )' is Not(And(A, B)).
C6_Precedence ==
    parsed.done =>
        /\ parsed.result.ok =>
              parsed.result.query.expression
                  = GrammarTree(tokens, Scan.roles, 1, Len(tokens))
        /\ Yield(<<"COND", "or", "COND", "and", "COND">>, Or(A, And(B, C)))
        /\ Yield(<<"COND", "and", "COND", "or", "COND">>, Or(And(A, B), C))
        /\ Yield(<<"not", "COND", "and", "COND">>, And(Not(A), B))
        /\ Yield(<<"COND", "or", "COND", "or", "COND">>, Or(Or(A, B), C))
        /\ Yield(<<"not", "(", "COND", "and", "COND", ")">>, Not(And(A, B)))

C6_Witness ==
    /\ parsed.done
    /\ tokens = Flatten(<<"not", "(", "COND", "and", "COND", ")">>, 1)
    /\ parsed.result.ok
    /\ parsed.result.query.expression = Not(And(A, B))

(***************************************************************************)
(* Claims about resolution (SpecResolve).                                  *)
(***************************************************************************)
Entry(i) == fs[queryset.sources[i]]

YieldsOf(i) ==
    LET es == SelectSeq(resolved.events, LAMBDA e : e.event = "yield" /\ e.src = i)
    IN  [k \in 1..Len(es) |-> es[k].doc]

WarningsOf(i) ==
    Len(SelectSeq(resolved.events, LAMBDA e : e.event = "warning" /\ e.src = i))

Matching(ds) == SelectSeq(ds, LAMBDA d : Query_evaluate(queryset.query, d).res)

\* The documents of a sequence of lines, in order
DocsOfLines(lines) ==
    LET ls == SelectSeq(lines, LAMBDA l : l.line = "doc")
    IN  [k \in 1..Len(ls) |-> ls[k].doc]

IsText(e) == e.kind = "file" /\ e.state = "text"
IsJsonl(e) == IsText(e) /\ e.suffix = ".jsonl"
InvalidLines(e) == {k \in 1..Len(e.content) : e.content[k].line = "invalid"}

\* A source that cannot be opened, read or decoded
CannotBeRead(e) ==
    \/ e.kind = "missing"
    \/ e.kind = "file" /\ e.state \in {"unopenable", "undecodable"}
    \/ IsText(e) /\ e.suffix = ".json" /\ e.content.json = "invalid"
    \/ IsJsonl(e) /\ InvalidLines(e) # {}

\* A file that holds documents only, and its documents in order
Readable(e) == IsText(e) /\ ~CannotBeRead(e)
DocsOf(e) ==
    IF e.suffix = ".jsonl" THEN DocsOfLines(e.content)
    ELSE IF e.content.json = "list" THEN e.content.docs
    ELSE <<e.content.doc>>

InSourceOrder ==
    \A a, b \in 1..Len(resolved.events) :
        a < b => resolved.events[a].src <= resolved.events[b].src

\* C8: a source that cannot be opened, read or decoded produces a warning
\* and does not abort resolution: every matching document of every later
\* source is still yielded, in source order.
C8_BadSourceWarnsAndContinues ==
    resolved.done =>
        \A i \in 1..Len(queryset.sources) :
            CannotBeRead(Entry(i)) =>
                /\ WarningsOf(i) >= 1
                /\ resolved.abortedAt = 0
                /\ InSourceOrder
                /\ \A j \in (i + 1)..Len(queryset.sources) :
                      Readable(Entry(j)) => YieldsOf(j) = Matching(DocsOf(Entry(j)))

\* Source i is a JSONL file with one invalid line among valid lines, and
\* resolution gets to it
OneInvalidLine(i) ==
    /\ IsJsonl(Entry(i))
    /\ Cardinality(InvalidLines(Entry(i))) = 1
    /\ DocsOfLines(Entry(i).content) # <<>>
    /\ resolved.abortedAt \in {0} \cup (i..Len(queryset.sources))

FirstInvalid(e) == CHOOSE k \in InvalidLines(e) : \A j \in InvalidLines(e) : k <= j

\* Resolution goes on after source i: it does not end there, and a readable
\* next source yields its matching documents
GoesOnAfter(i) ==
    /\ resolved.abortedAt # i
    /\ (i < Len(queryset.sources) /\ Readable(Entry(i + 1)))
          => YieldsOf(i + 1) = Matching(DocsOf(Entry(i + 1)))

\* C9 as stated: a JSONL source with one invalid line among valid lines
\* yields the matching documents of its valid lines, those before the invalid
\* line and those after it, nothing for the invalid line, a warning for the
\* source, and resolution goes on.
C9_ValidLinesBeforeAndAfter ==
    resolved.done =>
        \A i \in 1..Len(queryset.sources) :
            OneInvalidLine(i) =>
                /\ YieldsOf(i) = Matching(DocsOfLines(Entry(i).content))
                /\ WarningsOf(i) = 1
                /\ GoesOnAfter(i)

\* C9 amended: such a source yields the matching documents of the valid
\* lines before the invalid line only, and nothing for the invalid line or
\* for any line after it; it produces one warning, and resolution goes on
\* with the next source.
C9_ValidLinesBeforeOnly ==
    resolved.done =>
        \A i \in 1..Len(queryset.sources) :
            OneInvalidLine(i) =>
                /\ YieldsOf(i) = Matching(DocsOfLines(
                        SubSeq(Entry(i).content, 1, FirstInvalid(Entry(i)) - 1)))
                /\ WarningsOf(i) = 1
                /\ GoesOnAfter(i)

\* A matching line, the invalid line, a matching line: one document yielded,
\* then the warning, then the next source's document
C9_Witness ==
    /\ resolved.done
    /\ queryset.query = Query(LeafX)
    /\ Len(queryset.sources) = 2
    /\ IsJsonl(Entry(1))
    /\ Entry(1).content = <<DocLine(DocHigh), InvalidLine, DocLine(DocHigh)>>
    /\ resolved.events = <<YieldEvent(1, DocHigh), WarnEvent(1), YieldEvent(2, DocHigh)>>

(***************************************************************************)
(* Claims about serialization and the pipeline (Spec).                     *)
(***************************************************************************)
RECURSIVE ConditionNodes(_)
ConditionNodes(d) ==
    CASE d.type \in {"and", "or"} -> ConditionNodes(d.left) \cup ConditionNodes(d.right)
      [] d.type = "not" -> ConditionNodes(d.expression)
      [] d.type = "condition" -> {d}

RECURSIVE Leaves(_)
Leaves(e) ==
    CASE e.kind \in {"And", "Or"} -> Leaves(e.left) \cup Leaves(e.right)
      [] e.kind = "Not" -> Leaves(e.expression)
      [] e.kind = "Condition" -> {e}

held == memory[1].query.expression

\* C1: for the expression e an invocation holds, built by the parser's
\* factory calls and the And / Or / Not combinators, from_dict accepts
\* to_dict(e) and to_dict(from_dict(to_dict(e))) equals to_dict(e).
C1_RoundTrip ==
    memory # <<>> =>
        LET back == from_dict(to_dict(held))
        IN  /\ back.ok
            /\ to_dict(back.expr) = to_dict(held)

\* An expression with a matches condition from the parser and a condition
\* that came back from from_dict, under a combinator
C1_Witness ==
    /\ memory # <<>>
    /\ held.kind \in {"And", "Or"}
    /\ \E c \in Leaves(held) : c.op = "core._re_match_op" /\ c.quantifier = "builtins.all"
    /\ \E c \in Leaves(held) : c.op = "from_dict._re_match_op"
    /\ \E c \in Leaves(held) : c.op = "operator.contains"

DslWireName ==
    "equals" :> "eq" @@ "contains" :> "contains" @@ "greater" :> "gt"
    @@ "less" :> "lt" @@ "matches" :> "matches"

\* C2: every condition node of an emitted wire form has an op name among
\* eq, contains, gt, lt, matches and a quantifier name among any, all; the
\* DSL operators equals, contains, greater, less, matches are written as
\* eq, contains, gt, lt, matches.
C2_CanonicalNames ==
    wire.kind = "json" =>
        /\ \A n \in ConditionNodes(wire.query_ast) :
              /\ n.op \in {"eq", "contains", "gt", "lt", "matches"}
              /\ n.quantifier \in {"any", "all"}
        /\ (command.name = "query" /\ wire.query_ast.type = "condition")
              => wire.query_ast.op = DslWireName[command.dsl[Len(command.dsl) - 2]]

\* C10: every and / or / not stage that reads a wire form and whose operand
\* parses emits a wire form; its sources are the originating sources in the
\* same order and its query_ast is one new node around the incoming
\* query_ast, unchanged: left = incoming and right = the operand's tagged
\* tree for and / or, expression = incoming for not.  The query stage emits
\* the originating sources.
C10_StageWrapsIncoming ==
    /\ (command.name = "query" /\ wire.kind = "json") => wire.sources = origin
    /\ (command.name \in {"and", "or", "not"} /\ incoming.kind = "json") =>
          LET operand == DSLParser_parse(command.dsl)
          IN  IF command.name = "not"
              THEN /\ wire.kind = "json"
                   /\ wire.sources = origin
                   /\ wire.query_ast = [type |-> "not", expression |-> incoming.query_ast]
              ELSE operand.ok =>
                   /\ wire.kind = "json"
                   /\ wire.sources = origin
                   /\ wire.query_ast =
                        [type |-> command.name,
                         left |-> incoming.query_ast,
                         right |-> dumps_tree(to_dict(operand.query.expression))]

\* The third stage, an `and` after a `not`, around a first query that used
\* matches
C10_Witness ==
    /\ stage = 3
    /\ command.name = "and"
    /\ wire.kind = "json"
    /\ wire.sources = <<"a.json", "b.jsonl">>
    /\ wire.query_ast.left.type = "not"
    /\ wire.query_ast.left.expression.type = "condition"
    /\ wire.query_ast.left.expression.op = "_re_match_op"
    /\ wire.query_ast.left = incoming.query_ast

(***************************************************************************)
(* Claims about Expression.from_dict and the dict it is given              *)
(* (SpecFromDict).                                                         *)
(***************************************************************************)
\* Every node dict of a tagged tree, the root included
RECURSIVE NodeDicts(_)
NodeDicts(d) ==
    {d} \cup (IF Has(d, "left") THEN NodeDicts(d.left) ELSE {})
        \cup (IF Has(d, "right") THEN NodeDicts(d.right) ELSE {})
        \cup (IF Has(d, "expression") THEN NodeDicts(d.expression) ELSE {})

\* C11: Expression.from_dict leaves the tagged tree passed to it unchanged:
\* after any number of calls on a well-formed tree, the caller's dict is the
\* tree as given, every node dict of it still has its key "type", every call
\* succeeded, and all calls yielded trees with equal to_dict output.
C11_FromDictLeavesTree ==
    (given \in WellFormedDicts /\ calls # <<>>) =>
        /\ tree = given
        /\ \A n \in NodeDicts(tree) : Has(n, "type")
        /\ \A i \in 1..Len(calls) :
              /\ calls[i].ok
              /\ to_dict(calls[i].expr) = to_dict(calls[1].expr)
====
